---- MODULE Spec2Model ----
(***************************************************************************)
(* Model of build.py: the event date resolver, the current/past classifier *)
(* of convert_yaml_to_json and the RSS item renderer generate_rss_feed.    *)
(*                                                                         *)
(* Python strings are sequences of one-character strings.  Python's None   *)
(* is the one-element sequence None (for string-valued fields) or the      *)
(* record NoneDt (for datetime-valued results).  A datetime is a record of *)
(* its civil fields and its tzinfo ("UTC" for an aware value, "naive").    *)
(***************************************************************************)
EXTENDS Integers, Sequences, FiniteSets, TLC

\* ------------------------------------------------------------------------
\* Characters and the str methods the script uses
\* ------------------------------------------------------------------------
None == <<"None">>

Digits == <<"0", "1", "2", "3", "4", "5", "6", "7", "8", "9">>

Lower == <<"a", "b", "c", "d", "e", "f", "g", "h", "i", "j", "k", "l", "m",
           "n", "o", "p", "q", "r", "s", "t", "u", "v", "w", "x", "y", "z">>

Upper == <<"A", "B", "C", "D", "E", "F", "G", "H", "I", "J", "K", "L", "M",
           "N", "O", "P", "Q", "R", "S", "T", "U", "V", "W", "X", "Y", "Z">>

IsDigit(c) == \E i \in 1..10 : Digits[i] = c

DigitVal(c) == (CHOOSE i \in 1..10 : Digits[i] = c) - 1

\* regex \s on the characters that occur in the inputs
IsSpace(c) == c \in {" ", "\t", "\n"}

char_upper(c) ==
    IF \E i \in 1..26 : Lower[i] = c
    THEN Upper[CHOOSE i \in 1..26 : Lower[i] = c]
    ELSE c

char_lower(c) ==
    IF \E i \in 1..26 : Upper[i] = c
    THEN Lower[CHOOSE i \in 1..26 : Upper[i] = c]
    ELSE c

str_upper(s) == [i \in 1..Len(s) |-> char_upper(s[i])]

str_lower(s) == [i \in 1..Len(s) |-> char_lower(s[i])]

\* s[i] or "" past the end (a regex simply fails to match there)
At(s, i) == IF i >= 1 /\ i <= Len(s) THEN s[i] ELSE ""

RECURSIVE str_lstrip(_)
str_lstrip(s) ==
    IF s # <<>> /\ IsSpace(Head(s)) THEN str_lstrip(Tail(s)) ELSE s

RECURSIVE str_rstrip(_)
str_rstrip(s) ==
    IF s # <<>> /\ IsSpace(s[Len(s)])
    THEN str_rstrip(SubSeq(s, 1, Len(s) - 1))
    ELSE s

str_strip(s) == str_rstrip(str_lstrip(s))

\* s.split(',')[0]
RECURSIVE split_comma_first(_)
split_comma_first(s) ==
    IF s = <<>> \/ Head(s) = ","
    THEN <<>>
    ELSE <<Head(s)>> \o split_comma_first(Tail(s))

\* s.replace(old, new)
RECURSIVE str_replace(_, _, _)
str_replace(s, old, new) ==
    IF s = <<>> THEN <<>>
    ELSE IF Len(s) >= Len(old) /\ SubSeq(s, 1, Len(old)) = old
         THEN new \o str_replace(SubSeq(s, Len(old) + 1, Len(s)), old, new)
         ELSE <<Head(s)>> \o str_replace(Tail(s), old, new)

str_endswith(s, suffix) ==
    /\ Len(s) >= Len(suffix)
    /\ SubSeq(s, Len(s) - Len(suffix) + 1, Len(s)) = suffix

\* the decimal number written by d[1..Len(d)]
RECURSIVE int_of(_)
int_of(d) ==
    IF d = <<>> THEN 0
    ELSE 10 * int_of(SubSeq(d, 1, Len(d) - 1)) + DigitVal(d[Len(d)])

\* n written with at least w digits (format spec 0w d)
RECURSIVE zero_pad(_, _)
zero_pad(n, w) ==
    IF w <= 1 /\ n < 10 THEN <<Digits[n + 1]>>
    ELSE zero_pad(n \div 10, w - 1) \o <<Digits[(n % 10) + 1]>>

\* ------------------------------------------------------------------------
\* The calendar (datetime.date)
\* ------------------------------------------------------------------------
MINYEAR == 1

IsLeap(y) == (y % 4 = 0) /\ ((y % 100 # 0) \/ (y % 400 = 0))

DaysInMonth(y, m) ==
    IF m = 2 THEN (IF IsLeap(y) THEN 29 ELSE 28)
    ELSE IF m \in {4, 6, 9, 11} THEN 30 ELSE 31

ValidDate(y, m, d) ==
    /\ y >= MINYEAR
    /\ m \in 1..12
    /\ d >= 1 /\ d <= DaysInMonth(y, m)

NoneDt == [kind |-> "None"]

Raise(e) == [kind |-> "raise", exc |-> e]

\* TRUE when r is a raised exception rather than a value
IsRaise(r) == "kind" \in DOMAIN r /\ r.kind = "raise"

DateTime(y, mo, d, h, mi, s, tz) ==
    [kind |-> "datetime", year |-> y, month |-> mo, day |-> d,
     hour |-> h, minute |-> mi, second |-> s, microsecond |-> 0,
     tzinfo |-> tz]

\* the civil fields as a tuple, and their lexicographic order
Fields(dt) ==
    <<dt.year, dt.month, dt.day, dt.hour, dt.minute, dt.second, dt.microsecond>>

RECURSIVE TupleLess(_, _)
TupleLess(a, b) ==
    IF a = <<>> \/ b = <<>> THEN FALSE
    ELSE IF Head(a) # Head(b) THEN Head(a) < Head(b)
    ELSE TupleLess(Tail(a), Tail(b))

\* ------------------------------------------------------------------------
\* datetime.strptime: each directive is the regular expression _strptime
\* compiles it to, matched at position i of s.  A match is
\* [ok |-> TRUE, val |-> value, next |-> first position after it].
\* ------------------------------------------------------------------------
NoMatch == [ok |-> FALSE, val |-> 0, next |-> 0]

Match(v, n) == [ok |-> TRUE, val |-> v, next |-> n]

\* %Y : \d\d\d\d
re_Y(s, i) ==
    IF \A k \in 0..3 : IsDigit(At(s, i + k))
    THEN Match(int_of(SubSeq(s, i, i + 3)), i + 4)
    ELSE NoMatch

\* %m and %I : 1[0-2]|0[1-9]|[1-9]
re_m(s, i) ==
    IF At(s, i) = "1" /\ At(s, i + 1) \in {"0", "1", "2"}
    THEN Match(10 + DigitVal(At(s, i + 1)), i + 2)
    ELSE IF At(s, i) = "0" /\ IsDigit(At(s, i + 1)) /\ At(s, i + 1) # "0"
    THEN Match(DigitVal(At(s, i + 1)), i + 2)
    ELSE IF IsDigit(At(s, i)) /\ At(s, i) # "0"
    THEN Match(DigitVal(At(s, i)), i + 1)
    ELSE NoMatch

\* %d : 3[01]|[12]\d|0[1-9]|[1-9]| [1-9]
re_d(s, i) ==
    IF At(s, i) = "3" /\ At(s, i + 1) \in {"0", "1"}
    THEN Match(30 + DigitVal(At(s, i + 1)), i + 2)
    ELSE IF At(s, i) \in {"1", "2"} /\ IsDigit(At(s, i + 1))
    THEN Match(10 * DigitVal(At(s, i)) + DigitVal(At(s, i + 1)), i + 2)
    ELSE IF At(s, i) \in {"0", " "} /\ IsDigit(At(s, i + 1)) /\ At(s, i + 1) # "0"
    THEN Match(DigitVal(At(s, i + 1)), i + 2)
    ELSE IF IsDigit(At(s, i)) /\ At(s, i) # "0"
    THEN Match(DigitVal(At(s, i)), i + 1)
    ELSE NoMatch

\* %M : [0-5]\d|\d
re_M(s, i) ==
    IF At(s, i) \in {"0", "1", "2", "3", "4", "5"} /\ IsDigit(At(s, i + 1))
    THEN Match(10 * DigitVal(At(s, i)) + DigitVal(At(s, i + 1)), i + 2)
    ELSE IF IsDigit(At(s, i))
    THEN Match(DigitVal(At(s, i)), i + 1)
    ELSE NoMatch

\* a literal character of the format
re_lit(s, i, c) == IF At(s, i) = c THEN Match(0, i + 1) ELSE NoMatch

\* white space in a format : \s+
RECURSIVE skip_spaces(_, _)
skip_spaces(s, i) == IF IsSpace(At(s, i)) THEN skip_spaces(s, i + 1) ELSE i

re_ws(s, i) == IF IsSpace(At(s, i)) THEN Match(0, skip_spaces(s, i)) ELSE NoMatch

\* calendar.month_name and calendar.month_abbr (C locale), lower case
MonthNames ==
    << <<"j","a","n","u","a","r","y">>, <<"f","e","b","r","u","a","r","y">>,
       <<"m","a","r","c","h">>, <<"a","p","r","i","l">>, <<"m","a","y">>,
       <<"j","u","n","e">>, <<"j","u","l","y">>, <<"a","u","g","u","s","t">>,
       <<"s","e","p","t","e","m","b","e","r">>, <<"o","c","t","o","b","e","r">>,
       <<"n","o","v","e","m","b","e","r">>, <<"d","e","c","e","m","b","e","r">> >>

MonthAbbrs == [k \in 1..12 |-> SubSeq(MonthNames[k], 1, 3)]

\* TRUE when names[k] is written at i of s, in any case
name_at(s, i, names, k) ==
    /\ i + Len(names[k]) - 1 <= Len(s)
    /\ str_lower(SubSeq(s, i, i + Len(names[k]) - 1)) = names[k]

\* an alternation of the names, IGNORECASE; no name is a prefix of another,
\* so at most one alternative matches at i
re_name(s, i, names) ==
    IF \E k \in 1..12 : name_at(s, i, names, k)
    THEN LET n == CHOOSE k \in 1..12 : name_at(s, i, names, k)
         IN Match(n, i + Len(names[n]))
    ELSE NoMatch

\* %B
re_B(s, i) == re_name(s, i, MonthNames)

\* %b
re_b(s, i) == re_name(s, i, MonthAbbrs)

\* %p : am|pm, IGNORECASE; val is TRUE for pm
re_p(s, i) ==
    IF str_lower(<<At(s, i), At(s, i + 1)>>) = <<"a", "m">> THEN Match(FALSE, i + 2)
    ELSE IF str_lower(<<At(s, i), At(s, i + 1)>>) = <<"p", "m">> THEN Match(TRUE, i + 2)
    ELSE NoMatch

ValueError == Raise("ValueError")

\* the regular expression of one element of a format, matched at i of s
directive(s, i, d) ==
    CASE d = "%Y" -> re_Y(s, i)
      [] d = "%m" -> re_m(s, i)
      [] d = "%d" -> re_d(s, i)
      [] d = "%B" -> re_B(s, i)
      [] d = "%b" -> re_b(s, i)
      [] d = "%I" -> re_m(s, i)
      [] d = "%M" -> re_M(s, i)
      [] d = "%p" -> re_p(s, i)
      [] d = " "  -> re_ws(s, i)
      [] OTHER    -> re_lit(s, i, d)

\* The match of a whole format: its elements are matched one after the
\* other, each where the one before it ended.  found holds their values in
\* the order of the format.
FormatStart == [ok |-> TRUE, next |-> 1, found |-> <<>>]

extend(st, m) ==
    IF m.ok
    THEN [ok |-> TRUE, next |-> m.next, found |-> Append(st.found, m.val)]
    ELSE [st EXCEPT !.ok = FALSE]

then(st, s, d) == IF st.ok THEN extend(st, directive(s, st.next, d)) ELSE st

\* the match of the first n elements of format
RECURSIVE matched(_, _, _)
matched(s, format, n) ==
    IF n = 0 THEN FormatStart ELSE then(matched(s, format, n - 1), s, format[n])

\* the format matched all of s, and nothing of s is left over
fullmatch(s, st) == st.ok /\ st.next = Len(s) + 1

\* the date of a match whose year, month and day are found[y], found[m]
\* and found[d]
strptime_result(s, st, y, m, d) ==
    IF fullmatch(s, st) /\ ValidDate(st.found[y], st.found[m], st.found[d])
    THEN DateTime(st.found[y], st.found[m], st.found[d], 0, 0, 0, "naive")
    ELSE ValueError

\* datetime.strptime(s, '%Y-%m-%d')
strptime_iso(s) ==
    strptime_result(s, matched(s, <<"%Y", "-", "%m", "-", "%d">>, 5), 1, 3, 5)

\* datetime.strptime(s, '%d %B %Y') and datetime.strptime(s, '%d %b %Y'):
\* month is "%B" or "%b"
strptime_dmy(s, month) ==
    strptime_result(s, matched(s, <<"%d", " ", month, " ", "%Y">>, 5), 5, 3, 1)

\* the 24-hour time of a match of %I, ':', %M, %p
time_result(s, st) ==
    IF fullmatch(s, st)
    THEN [kind |-> "time",
          hour |-> (st.found[1] % 12) + (IF st.found[4] THEN 12 ELSE 0),
          minute |-> st.found[3]]
    ELSE ValueError

\* datetime.strptime(s, '%I:%M%p'): the hour and minute of the 12-hour time
strptime_time(s) ==
    time_result(s, matched(s, <<"%I", ":", "%M", "%p">>, 4))

TBA == <<"T", "B", "A">>

\* lines 156-164: the result of the first format that parses, None when
\* every strptime raised ValueError
first_parsed(iso, full, abbr) ==
    IF iso.kind = "datetime" THEN iso
    ELSE IF full.kind = "datetime" THEN full
    ELSE IF abbr.kind = "datetime" THEN abbr
    ELSE NoneDt

try_formats(date_part) ==
    first_parsed(strptime_iso(date_part), strptime_dmy(date_part, "%B"),
                 strptime_dmy(date_part, "%b"))

\* parse_event_date: the first format that parses, at midnight
parse_event_date(date_str) ==
    IF date_str = <<>> \/ str_upper(str_strip(date_str)) = TBA
    THEN NoneDt
    ELSE try_formats(str_strip(split_comma_first(date_str)))

\* ------------------------------------------------------------------------
\* The time of day embedded in the date string
\* ------------------------------------------------------------------------
AmPmClass == {"A", "P", "M", "a", "p", "m"}

\* \d{1,2} at i: the number of digits taken when ':' (sep) or the rest of
\* the hour pattern follows; a shorter take never lets the rest match
digits_taken(s, i) ==
    IF IsDigit(At(s, i)) /\ IsDigit(At(s, i + 1)) THEN 2
    ELSE IF IsDigit(At(s, i)) THEN 1
    ELSE 0

\* :\d{2}\s*[APMapm]{2} matched at i: the position of the last character,
\* 0 when there is no match at i
minutes_ampm_at(s, i) ==
    IF /\ At(s, i) = ":"
       /\ IsDigit(At(s, i + 1)) /\ IsDigit(At(s, i + 2))
       /\ At(s, skip_spaces(s, i + 3)) \in AmPmClass
       /\ At(s, skip_spaces(s, i + 3) + 1) \in AmPmClass
    THEN skip_spaces(s, i + 3) + 1
    ELSE 0

\* (\d{1,2}:\d{2}\s*[APMapm]{2}) matched at i: the position of the last
\* character of the group, 0 when there is no match at i
time_match_at(s, i) ==
    IF digits_taken(s, i) > 0
    THEN minutes_ampm_at(s, i + digits_taken(s, i))
    ELSE 0

\* re.search scans from the left: the least start of a match, 0 when none
leftmost(starts) ==
    IF starts = {} THEN 0 ELSE CHOOSE a \in starts : \A b \in starts : a <= b

\* the group matched at i, None when there is no match (i = 0)
time_group(s, i) == IF i = 0 THEN None ELSE SubSeq(s, i, time_match_at(s, i))

\* re.search: the leftmost match, as the matched group, or None
time_search(s) ==
    time_group(s, leftmost({i \in 1..Len(s) : time_match_at(s, i) > 0}))

OrdinalSuffixes == {<<"s", "t">>, <<"n", "d">>, <<"r", "d">>, <<"t", "h">>}

HourWord == <<"h", "o", "u", "r">>

\* (?:st|nd|rd|th)? at j: the position after it
after_ordinal(s, j) ==
    IF str_lower(<<At(s, j), At(s, j + 1)>>) \in OrdinalSuffixes
    THEN j + 2 ELSE j

\* Hour, IGNORECASE, at k
hour_word_at(s, k) ==
    /\ k + 3 <= Len(s)
    /\ str_lower(SubSeq(s, k, k + 3)) = HourWord

\* (\d{1,2})(?:st|nd|rd|th)?\s*Hour, IGNORECASE, matched at i: TRUE on a match
hour_match_at(s, i) ==
    /\ digits_taken(s, i) > 0
    /\ hour_word_at(s, skip_spaces(s, after_ordinal(s, i + digits_taken(s, i))))

\* int(group(1)) of the match at i, -1 when there is no match (i = 0)
hour_group(s, i) ==
    IF i = 0 THEN -1 ELSE int_of(SubSeq(s, i, i + digits_taken(s, i) - 1))

\* re.search of the hour pattern: int(group(1)) of the leftmost match, or -1
hour_search(s) ==
    hour_group(s, leftmost({i \in 1..Len(s) : hour_match_at(s, i)}))

\* a failed strptime of the time token left uncaught
malformed_time_token_raises(exc) == exc

\* what a failed strptime of the time token leads to: the except clause
\* passes, hour and minute stay 0
malformed_time_token(exc) == [kind |-> "time", hour |-> 0, minute |-> 0]

\* lines 187-194: the time token parsed, or what its failure leads to
time_of_token(tm) == IF tm.kind = "time" THEN tm ELSE malformed_time_token(tm)

\* lines 185-194: the hour and minute of the matched clock time
clock_time(time_match) ==
    time_of_token(strptime_time(
        str_replace(str_upper(str_strip(time_match)), <<" ">>, <<>>)))

\* lines 180, 197-204: the hour of the hour pattern, 0 without a match (-1)
hour_time(hour) ==
    [kind |-> "time", hour |-> IF hour >= 0 THEN hour ELSE 0, minute |-> 0]

\* the hour pattern tried before the clock time
select_time_hour_first(time_match, hour) ==
    IF hour >= 0 THEN hour_time(hour)
    ELSE IF time_match # None THEN clock_time(time_match)
    ELSE hour_time(hour)

\* lines 184, 195: the clock time when there is one, else the hour pattern
select_time(time_match, hour) ==
    IF time_match # None THEN clock_time(time_match) ELSE hour_time(hour)

\* lines 182-204: hour and minute, or the exception that escapes
extract_time(date_str) ==
    select_time(time_search(date_str), hour_search(date_str))

\* lines 177-179, 207: datetime.combine(base_dt.date(), time(hour % 24,
\* minute)); None when the date did not parse
combine(base_dt, t) ==
    IF base_dt = NoneDt THEN NoneDt
    ELSE IF t.kind = "raise" THEN t
    ELSE DateTime(base_dt.year, base_dt.month, base_dt.day,
                  t.hour % 24, t.minute, 0, "naive")

\* ------------------------------------------------------------------------
\* ZoneInfo('Asia/Kolkata'): the UTC offset, in seconds, of a local date in
\* the tz database (a change of offset is placed at the start of a date)
\* ------------------------------------------------------------------------
IST == 19800

KolkataOffset(y, m, d) ==
    LET date == <<y, m, d>>
    IN IF TupleLess(date, <<1854, 6, 28>>) THEN 21208
       ELSE IF TupleLess(date, <<1870, 1, 1>>) THEN 21200
       ELSE IF TupleLess(date, <<1906, 1, 2>>) THEN 19270
       ELSE IF TupleLess(date, <<1941, 10, 2>>) THEN IST
       ELSE IF TupleLess(date, <<1942, 5, 15>>) THEN IST + 3600
       ELSE IF TupleLess(date, <<1942, 9, 2>>) THEN IST
       ELSE IF TupleLess(date, <<1945, 10, 15>>) THEN IST + 3600
       ELSE IST

PrevDay(y, m, d) ==
    IF d > 1 THEN <<y, m, d - 1>>
    ELSE IF m > 1 THEN <<y, m - 1, DaysInMonth(y, m - 1)>>
    ELSE <<y - 1, 12, 31>>

\* the offset applied in the wrong direction
utc_seconds_added(local_seconds, offset) == local_seconds + offset

\* the direction in which the offset is applied going from local to UTC
utc_seconds(local_seconds, offset) == local_seconds - offset

\* the UTC datetime secs seconds after the local midnight of y-m-d, secs
\* being negative when the instant falls on the day before
utc_datetime(y, m, d, secs) ==
    IF secs >= 0
    THEN DateTime(y, m, d, secs \div 3600, (secs % 3600) \div 60, secs % 60, "UTC")
    ELSE IF PrevDay(y, m, d)[1] < MINYEAR
    THEN Raise("OverflowError")
    ELSE DateTime(PrevDay(y, m, d)[1], PrevDay(y, m, d)[2], PrevDay(y, m, d)[3],
                  (secs + 86400) \div 3600, ((secs + 86400) % 3600) \div 60,
                  (secs + 86400) % 60, "UTC")

\* combined.replace(tzinfo=local_tz).astimezone(ZoneInfo('UTC'))
astimezone_utc(combined) ==
    utc_datetime(combined.year, combined.month, combined.day,
        utc_seconds(combined.hour * 3600 + combined.minute * 60 + combined.second,
                    KolkataOffset(combined.year, combined.month, combined.day)))

\* The three runtimes of lines 17-22 and of the tz database lookup
ZoneInfoModes == {"zoneinfo", "None", "ZoneInfoNotFoundError"}

\* lines 215-219: the converted instant, the naive one when the conversion
\* raised
converted_or_naive(combined, utc_dt) ==
    IF utc_dt.kind = "raise" THEN combined ELSE utc_dt

\* lines 209-221: the timezone attachment
attach_timezone(combined, zi) ==
    IF combined.kind # "datetime" THEN combined
    ELSE IF zi = "zoneinfo"
    THEN converted_or_naive(combined, astimezone_utc(combined))
    ELSE combined

\* parse_event_datetime_with_tz under the runtime zi; combined_of is the
\* local instant of line 207 (NoneDt when the function returns before it)
combined_of(date_str) ==
    IF date_str = <<>> \/ str_upper(str_strip(date_str)) = TBA THEN NoneDt
    ELSE combine(parse_event_date(date_str), extract_time(date_str))

parse_event_datetime_with_tz(date_str, zi) ==
    attach_timezone(combined_of(date_str), zi)

\* datetime.isoformat()
isoformat(dt) ==
    zero_pad(dt.year, 4) \o <<"-">> \o zero_pad(dt.month, 2) \o <<"-">>
    \o zero_pad(dt.day, 2) \o <<"T">> \o zero_pad(dt.hour, 2) \o <<":">>
    \o zero_pad(dt.minute, 2) \o <<":">> \o zero_pad(dt.second, 2)
    \o (IF dt.tzinfo = "UTC" THEN <<"+", "0", "0", ":", "0", "0">> ELSE <<>>)

PlusZero == <<"+", "0", "0", ":", "0", "0">>

\* lines 236-241: a trailing +00:00 rewritten to Z
zulu(iso) ==
    IF str_endswith(iso, PlusZero)
    THEN str_replace(iso, PlusZero, <<"Z">>)
    ELSE iso

\* lines 232-241: the ISO string written to date_utc
date_utc_string(dt_utc) == zulu(isoformat(dt_utc))

\* lines 228-243: the event with the date_utc of dt_utc, or the exception
with_date_utc(event, dt_utc) ==
    IF IsRaise(dt_utc) THEN dt_utc
    ELSE IF dt_utc = NoneDt
    THEN [event EXCEPT !.date_utc = None]
    ELSE [event EXCEPT !.date_utc = date_utc_string(dt_utc)]

\* attach_date_utc_to_event: the event with its date_utc set, or the
\* exception that escapes.  event.date is None when the key is absent.
attach_date_utc_to_event(event, zi) ==
    with_date_utc(event,
        parse_event_datetime_with_tz(
            IF event.date = None THEN <<>> ELSE event.date, zi))

\* the fields of an ISO string s that isoformat wrote
iso_fields(s) ==
    LET num(a, b) == int_of(SubSeq(s, a, b))
    IN IF /\ Len(s) >= 19
          /\ \A i \in {1, 2, 3, 4, 6, 7, 9, 10, 12, 13, 15, 16, 18, 19} :
                IsDigit(At(s, i))
          /\ At(s, 5) = "-" /\ At(s, 8) = "-" /\ At(s, 11) = "T"
          /\ At(s, 14) = ":" /\ At(s, 17) = ":"
          /\ SubSeq(s, 20, Len(s)) \in {<<>>, PlusZero}
          /\ ValidDate(num(1, 4), num(6, 7), num(9, 10))
          /\ num(12, 13) < 24 /\ num(15, 16) < 60 /\ num(18, 19) < 60
       THEN DateTime(num(1, 4), num(6, 7), num(9, 10),
                     num(12, 13), num(15, 16), num(18, 19),
                     IF SubSeq(s, 20, Len(s)) = <<>> THEN "naive" ELSE "UTC")
       ELSE ValueError

\* datetime.fromisoformat(s.replace('Z', '+00:00')) on a string isoformat wrote
fromisoformat(date_utc) == iso_fields(str_replace(date_utc, <<"Z">>, PlusZero))

\* ------------------------------------------------------------------------
\* The date strings the resolver is run on
\* ------------------------------------------------------------------------
DateSamples == <<
    <<"2", "0", "2", "5", "-", "0", "1", "-", "1", "0">>,  \* 1 '2025-01-10'
    <<"2", "0", "2", "0", "-", "0", "1", "-", "0", "1">>,  \* 2 '2020-01-01'
    <<"2", "0", "3", "0", "-", "0", "6", "-", "1", "5">>,  \* 3 '2030-06-15'
    <<"2", "0", "2", "4", "-", "0", "2", "-", "2", "9">>,  \* 4 '2024-02-29'
    <<"2", "0", "2", "5", "-", "3", "-", "1">>,  \* 5 '2025-3-1'
    <<" ", "2", "0", "2", "5", "-", "0", "1", "-", "1", "0", " ">>,  \* 6 ' 2025-01-10 '
    <<"1", "9", "4", "3", "-", "0", "1", "-", "0", "1">>,  \* 7 '1943-01-01'
    <<"1", "9", "0", "0", "-", "0", "1", "-", "0", "1">>,  \* 8 '1900-01-01'
    <<"0", "0", "0", "1", "-", "0", "1", "-", "0", "1">>,  \* 9 '0001-01-01'
    <<"9", "9", "9", "9", "-", "1", "2", "-", "3", "1">>,  \* 10 '9999-12-31'
    <<"1", "9", "4", "5", "-", "1", "0", "-", "1", "4">>,  \* 11 '1945-10-14'
    <<"1", "9", "4", "5", "-", "1", "0", "-", "1", "5">>,  \* 12 '1945-10-15'
    <<"2", "0", "2", "5", "-", "0", "1", "-", "1", "0", ",">>,  \* 13 '2025-01-10,'
    <<"2", "0", "2", "5", "-", "0", "1", "-", "1", "0", ",", " ", "F", "r", "i", "d", "a", "y">>,  \* 14 '2025-01-10, Friday'
    <<"2", "0", "2", "3", "-", "0", "2", "-", "2", "9">>,  \* 15 '2023-02-29'
    <<"2", "0", "2", "5", "-", "1", "3", "-", "1", "0">>,  \* 16 '2025-13-10'
    <<"2", "0", "2", "5", "-", "0", "1", "-", "3", "2">>,  \* 17 '2025-01-32'
    <<"0", "0", "0", "0", "-", "0", "1", "-", "0", "1">>,  \* 18 '0000-01-01'
    <<"2", "0", "2", "5", "-", "0", "1", "-", "1", "0", "T", "1", "0", ":", "0", "0">>,  \* 19 '2025-01-10T10:00'
    <<"1", "0", " ", "S", "e", "p", "t", " ", "2", "0", "2", "5">>,  \* 20 '10 Sept 2025'
    <<"1", "0", "O", "c", "t", "o", "b", "e", "r", " ", "2", "0", "2", "5">>,  \* 21 '10October 2025'
    <<"1", "0", " ", "O", "c", "t", "o", "b", "e", "r", " ", "2", "5">>,  \* 22 '10 October 25'
    <<"2", "0", "2", "5", "-", "0", "1", "-", "1", "0", " ", "(", "1", ":", "2", "0", "P", "M", ")">>,  \* 23 '2025-01-10 (1:20PM)'
    <<"n", "e", "x", "t", " ", "w", "e", "e", "k">>,  \* 24 'next week'
    <<>>,  \* 25 ''
    <<"T", "B", "A">>,  \* 26 'TBA'
    <<" ", "t", "b", "a", " ">>,  \* 27 ' tba '
    <<"T", "b", "a">>,  \* 28 'Tba'
    <<" ", " ", " ">>,  \* 29 '   '
    <<"T", "B", "A", ",", " ", "l", "a", "t", "e", "r">>,  \* 30 'TBA, later'
    <<"1", "0", " ", "O", "c", "t", "o", "b", "e", "r", " ", "2", "0", "2", "5">>,  \* 31 '10 October 2025'
    <<"1", "0", " ", "O", "c", "t", " ", "2", "0", "2", "5">>,  \* 32 '10 Oct 2025'
    <<"1", "0", " ", "o", "c", "t", " ", "2", "0", "2", "5">>,  \* 33 '10 oct 2025'
    <<"1", "0", " ", " ", "O", "C", "T", "O", "B", "E", "R", " ", " ", "2", "0", "2", "5">>,  \* 34 '10  OCTOBER  2025'
    <<"1", " ", "J", "a", "n", "u", "a", "r", "y", " ", "2", "0", "2", "5">>,  \* 35 '1 January 2025'
    <<"1", "0", " ", "M", "a", "y", " ", "2", "0", "2", "5">>,  \* 36 '10 May 2025'
    <<"1", "0", " ", "O", "c", "t", "o", "b", "e", "r", " ", "2", "0", "2", "5", ",", " ", "F", "r", "i", "d", "a", "y", " ", "(", "1", ":", "2", "0", "P", "M", ")">>,  \* 37 '10 October 2025, Friday (1:20PM)'
    <<"1", "0", " ", "O", "c", "t", " ", "2", "0", "2", "5", ",", " ", "1", ":", "2", "0", " ", "p", "m">>,  \* 38 '10 Oct 2025, 1:20 pm'
    <<"1", "0", " ", "O", "c", "t", " ", "2", "0", "2", "5", ",", " ", "1", ":", "2", "0", " ", " ", "p", "m">>,  \* 39 '10 Oct 2025, 1:20  pm'
    <<"1", "0", " ", "O", "c", "t", " ", "2", "0", "2", "5", ",", " ", "1", ":", "2", "0", "\t", "p", "m">>,  \* 40 '10 Oct 2025, 1:20<tab>pm'
    <<"2", "0", "2", "5", "-", "0", "1", "-", "1", "0", ",", " ", "1", "2", ":", "0", "0", "P", "M">>,  \* 41 '2025-01-10, 12:00PM'
    <<"2", "0", "2", "5", "-", "0", "1", "-", "1", "0", ",", " ", "1", "2", ":", "3", "0", "A", "M">>,  \* 42 '2025-01-10, 12:30AM'
    <<"2", "0", "2", "5", "-", "0", "1", "-", "1", "0", ",", " ", "1", "1", ":", "5", "9", " ", "P", "M">>,  \* 43 '2025-01-10, 11:59 PM'
    <<"2", "0", "2", "5", "-", "0", "1", "-", "1", "0", ",", " ", "0", "9", ":", "0", "5", "a", "m">>,  \* 44 '2025-01-10, 09:05am'
    <<"2", "0", "2", "5", "-", "0", "1", "-", "1", "0", ",", " ", "1", "3", ":", "2", "0", "P", "M">>,  \* 45 '2025-01-10, 13:20PM'
    <<"2", "0", "2", "5", "-", "0", "1", "-", "1", "0", ",", " ", "0", ":", "3", "0", "A", "M">>,  \* 46 '2025-01-10, 0:30AM'
    <<"2", "0", "2", "5", "-", "0", "1", "-", "1", "0", ",", " ", "1", "2", ":", "6", "0", "P", "M">>,  \* 47 '2025-01-10, 12:60PM'
    <<"2", "0", "2", "5", "-", "0", "1", "-", "1", "0", ",", " ", "1", ":", "2", "0", "p", "a">>,  \* 48 '2025-01-10, 1:20pa'
    <<"2", "0", "2", "5", "-", "0", "1", "-", "1", "0", ",", " ", "1", ":", "2", "0", "M", "M", " ", "2", "n", "d", " ", "H", "o", "u", "r">>,  \* 49 '2025-01-10, 1:20MM 2nd Hour'
    <<"1", "0", " ", "O", "c", "t", " ", "2", "0", "2", "5", ",", " ", "9", ":", "0", "5", " ", "a", "m", " ", "t", "h", "e", "n", " ", "1", ":", "2", "0", "P", "M">>,  \* 50 '10 Oct 2025, 9:05 am then 1:20PM'
    <<"2", "0", "2", "5", "-", "0", "1", "-", "1", "0", ",", " ", "1", ":", "2", "0", "P", "M", " ", "3", "r", "d", " ", "H", "o", "u", "r">>,  \* 51 '2025-01-10, 1:20PM 3rd Hour'
    <<"2", "0", "2", "5", "-", "0", "1", "-", "1", "0", ",", " ", "1", "1", "3", ":", "2", "0", "P", "M">>,  \* 52 '2025-01-10, 113:20PM'
    <<"2", "0", "2", "5", "-", "0", "1", "-", "1", "0", ",", " ", "2", "n", "d", " ", "H", "o", "u", "r">>,  \* 53 '2025-01-10, 2nd Hour'
    <<"1", "0", " ", "O", "c", "t", " ", "2", "0", "2", "5", ",", " ", "1", "s", "t", " ", "h", "o", "u", "r">>,  \* 54 '10 Oct 2025, 1st hour'
    <<"2", "0", "2", "5", "-", "0", "1", "-", "1", "0", ",", " ", "2", "5", "t", "h", " ", "H", "o", "u", "r">>,  \* 55 '2025-01-10, 25th Hour'
    <<"2", "0", "2", "5", "-", "0", "1", "-", "1", "0", ",", " ", "2", "4", "t", "h", " ", "H", "o", "u", "r">>,  \* 56 '2025-01-10, 24th Hour'
    <<"2", "0", "2", "5", "-", "0", "1", "-", "1", "0", ",", " ", "9", "9", "t", "h", " ", "H", "o", "u", "r">>,  \* 57 '2025-01-10, 99th Hour'
    <<"2", "0", "2", "5", "-", "0", "1", "-", "1", "0", ",", " ", "3", "r", "d", "H", "o", "u", "r">>,  \* 58 '2025-01-10, 3rdHour'
    <<"2", "0", "2", "5", "-", "0", "1", "-", "1", "0", ",", " ", "5", " ", "h", "o", "u", "r", "s">>,  \* 59 '2025-01-10, 5 hours'
    <<"2", "0", "2", "5", "-", "0", "1", "-", "1", "0", ",", " ", "1", "2", "3", "r", "d", " ", "H", "o", "u", "r">>,  \* 60 '2025-01-10, 123rd Hour'
    <<"2", "0", "2", "5", "-", "0", "1", "-", "1", "0", ",", " ", "0", "t", "h", " ", "H", "o", "u", "r">>,  \* 61 '2025-01-10, 0th Hour'
    <<"0", "0", "0", "1", "-", "0", "1", "-", "0", "1", ",", " ", "6", "t", "h", " ", "H", "o", "u", "r">>,  \* 62 '0001-01-01, 6th Hour'
    <<"0", "0", "0", "1", "-", "0", "1", "-", "0", "1", ",", " ", "5", ":", "5", "3", "A", "M">>,  \* 63 '0001-01-01, 5:53AM'
    <<"2", "0", "2", "5", "-", "0", "1", "-", "1", "0", ",", " ", "T", "B", "A">>   \* 64 '2025-01-10, TBA'
    >>

DateStrings == {DateSamples[i] : i \in 1..Len(DateSamples)}

\* ------------------------------------------------------------------------
\* Events: the keys of an event map the script reads.  None is an absent
\* key (dict.get then yields its default).
\* ------------------------------------------------------------------------
Event(title, description, date) ==
    [title |-> title, description |-> description, location |-> None,
     duration |-> None, date |-> date, date_utc |-> None,
     signup_url |-> None, instructions_url |-> None]

\* event.get(key, default)
get(value, default) == IF value = None THEN default ELSE value

\* ------------------------------------------------------------------------
\* generate_rss_feed
\* ------------------------------------------------------------------------
\* xml.sax.saxutils.escape
escape(data) ==
    LET a == str_replace(data, <<"&">>, <<"&", "a", "m", "p", ";">>)
        b == str_replace(a, <<">">>, <<"&", "g", "t", ";">>)
    IN str_replace(b, <<"<">>, <<"&", "l", "t", ";">>)

UntitledEvent ==
    <<"U", "n", "t", "i", "t", "l", "e", "d", " ", "E", "v", "e", "n", "t">>

TBD ==
    <<"T", "B", "D">>

LocationMarkup ==
    <<"<", "b", "r", "/", ">", "<", "b", "r", "/", ">", "<", "s", "t", "r", "o", "n", "g", ">", "L", "o", "c", "a", "t", "i", "o", "n", ":", "<", "/", "s", "t", "r", "o", "n", "g", ">", " ">>

DurationMarkup ==
    <<"<", "b", "r", "/", ">", "<", "s", "t", "r", "o", "n", "g", ">", "D", "u", "r", "a", "t", "i", "o", "n", ":", "<", "/", "s", "t", "r", "o", "n", "g", ">", " ">>

DateMarkup ==
    <<"<", "b", "r", "/", ">", "<", "s", "t", "r", "o", "n", "g", ">", "D", "a", "t", "e", ":", "<", "/", "s", "t", "r", "o", "n", "g", ">", " ">>

SignupOpen ==
    <<"<", "b", "r", "/", ">", "<", "b", "r", "/", ">", "<", "a", " ", "h", "r", "e", "f", "=", "\"">>

SignupClose ==
    <<"\"", ">", "S", "i", "g", "n", " ", "U", "p", " ", "H", "e", "r", "e", "<", "/", "a", ">">>

InstructionsOpen ==
    <<"<", "b", "r", "/", ">", "<", "a", " ", "h", "r", "e", "f", "=", "\"">>

InstructionsClose ==
    <<"\"", ">", "V", "i", "e", "w", " ", "I", "n", "s", "t", "r", "u", "c", "t", "i", "o", "n", "s", "<", "/", "a", ">">>

base_url ==
    <<"h", "t", "t", "p", "s", ":", "/", "/", "n", "e", "o", "t", "e", "c", "h", "c", "l", "u", "b", ".", "q", "z", "z", ".", "i", "o">>

\* str(x) inside an f-string
fstr(x) == IF x = None THEN <<"N", "o", "n", "e">> ELSE x

\* the description placed in the CDATA body as it is
item_description_raw(description) == description

\* line 252: the description text placed at the head of the CDATA body
item_description_text(description) == escape(description)

\* lines 271-285: the HTML body of the item's description element
full_description_of(event) ==
    LET event_desc     == item_description_text(get(event.description, <<>>))
        event_location == escape(get(event.location, TBD))
        event_duration == escape(get(event.duration, <<>>))
        event_date_str == get(event.date, TBD)
    IN event_desc
       \o (IF event_location # <<>> THEN LocationMarkup \o event_location ELSE <<>>)
       \o (IF event_duration # <<>> THEN DurationMarkup \o event_duration ELSE <<>>)
       \o (IF event_date_str # <<>> THEN DateMarkup \o escape(event_date_str) ELSE <<>>)
       \o (IF event.signup_url \notin {None, <<>>}
           THEN SignupOpen \o escape(event.signup_url) \o SignupClose ELSE <<>>)
       \o (IF event.instructions_url \notin {None, <<>>}
           THEN InstructionsOpen \o escape(event.instructions_url) \o InstructionsClose
           ELSE <<>>)

\* lines 287-288: the synthesized GUID
title_slug(event_title) == str_lower(str_replace(event_title, <<" ">>, <<"-">>))

guid_of(event, link) ==
    LET event_title    == escape(get(event.title, UntitledEvent))
        event_date_str == get(event.date, TBD)
        guid_id == IF event.date_utc \notin {None, <<>>}
                   THEN event.date_utc ELSE event_date_str
    IN link \o <<"/", "#">> \o title_slug(event_title) \o <<"-">> \o fstr(guid_id)

\* lines 263-266: the parsed instant, now when fromisoformat raised
parsed_or(dt, fallback) == IF dt.kind = "datetime" THEN dt ELSE fallback

\* lines 258-268: the instant pubDate is rendered from (its RFC-822 text is
\* not modelled); now is datetime.now()
pub_date_of(event, now) ==
    IF event.date_utc \notin {None, <<>>}
    THEN parsed_or(fromisoformat(event.date_utc), now)
    ELSE now

\* lines 250-297: the item rendered for one event
rss_item(event, link, now) ==
    [title       |-> escape(get(event.title, UntitledEvent)),
     description |-> full_description_of(event),
     pubDate     |-> pub_date_of(event, now),
     link        |-> link,
     guid        |-> guid_of(event, link)]

\* the feed document written to output_file
generate_rss_feed(events, title, description, link, now) ==
    [title |-> escape(title), description |-> escape(description),
     link |-> link, lastBuildDate |-> now,
     items |-> [i \in 1..Len(events) |-> rss_item(events[i], link, now)]]

\* ------------------------------------------------------------------------
\* convert_yaml_to_json: classification and ordering of the events
\* ------------------------------------------------------------------------
\* data.get(key, []) or [] : a document is the function from its keys
event_list(data, key) == IF key \in DOMAIN data THEN data[key] ELSE <<>>

\* lines 345-348: the reference instant; clock is the wall clock in UTC
now_utc_of(clock, zi) ==
    IF zi = "None"
    THEN DateTime(clock[1], clock[2], clock[3], clock[4], clock[5], clock[6], "naive")
    ELSE IF zi = "zoneinfo"
    THEN DateTime(clock[1], clock[2], clock[3], clock[4], clock[5], clock[6], "UTC")
    ELSE Raise("ZoneInfoNotFoundError")

\* a < b on datetimes: TypeError between a naive and an aware value
dt_less(a, b) ==
    IF a.tzinfo # b.tzinfo
    THEN Raise("TypeError")
    ELSE [kind |-> "bool", val |-> TupleLess(Fields(a), Fields(b))]

\* line 356: the comparison that sends an event to new_past
before_now(ev_dt, now_utc) == dt_less(ev_dt, now_utc)

\* lines 354-362: the outcome of the comparison; an event goes to
\* new_current when parsing or comparing raised
is_past(ev_dt, now_utc) ==
    /\ ev_dt.kind = "datetime"
    /\ before_now(ev_dt, now_utc).kind = "bool"
    /\ before_now(ev_dt, now_utc).val

\* lines 351-365: TRUE when the event is appended to new_past
goes_to_past(event, now_utc) ==
    IF event.date_utc \in {None, <<>>}
    THEN FALSE
    ELSE is_past(fromisoformat(event.date_utc), now_utc)

datetime_max ==
    [DateTime(9999, 12, 31, 23, 59, 59, "naive") EXCEPT !.microsecond = 999999]

datetime_min == DateTime(1, 1, 1, 0, 0, 0, "naive")

\* lines 368-375
sort_key_asc(event) ==
    IF event.date_utc \in {None, <<>>} THEN datetime_max
    ELSE parsed_or(fromisoformat(event.date_utc), datetime_max)

\* lines 377-384
sort_key_desc(event) ==
    IF event.date_utc \in {None, <<>>} THEN datetime_min
    ELSE parsed_or(fromisoformat(event.date_utc), datetime_min)

\* list.sort on a list of [key, item] pairs.  The sort is stable and only
\* uses <; it raises when it has to order a naive key against an aware one,
\* which it must as soon as the list holds both.
Reverse(seq) == [i \in 1..Len(seq) |-> seq[Len(seq) + 1 - i]]

RECURSIVE insert_sorted(_, _)
insert_sorted(sorted, e) ==
    IF sorted = <<>> THEN <<e>>
    ELSE IF dt_less(e.key, Head(sorted).key).val
         THEN <<e>> \o sorted
         ELSE <<Head(sorted)>> \o insert_sorted(Tail(sorted), e)

RECURSIVE stable_sort(_)
stable_sort(keyed) ==
    IF keyed = <<>> THEN <<>>
    ELSE insert_sorted(stable_sort(SubSeq(keyed, 1, Len(keyed) - 1)),
                       keyed[Len(keyed)])

\* a descending sort that reverses an ascending one, and with it the order
\* of the items with equal keys
sort_then_reverse(keyed) == Reverse(stable_sort(keyed))

\* reverse=True: the list is reversed, sorted, and reversed again, so that
\* items with equal keys keep their original order
sort_reversed(keyed) == Reverse(stable_sort(Reverse(keyed)))

\* the items of a sorted list of pairs
items_of(sorted) == [kind |-> "list", val |-> [i \in 1..Len(sorted) |-> sorted[i].item]]

list_sort(keyed, reverse) ==
    IF \E i, j \in 1..Len(keyed) : keyed[i].key.tzinfo # keyed[j].key.tzinfo
    THEN Raise("TypeError")
    ELSE items_of(IF reverse THEN sort_reversed(keyed) ELSE stable_sort(keyed))

\* line 386
sort_current(new_current) ==
    list_sort([i \in 1..Len(new_current) |->
                  [key |-> sort_key_asc(new_current[i]), item |-> new_current[i]]],
              FALSE)

\* the past list sorted without reverse=True
sort_past_ascending(new_past) ==
    list_sort([i \in 1..Len(new_past) |->
                  [key |-> sort_key_desc(new_past[i]), item |-> new_past[i]]],
              FALSE)

\* line 387
sort_past(new_past) ==
    list_sort([i \in 1..Len(new_past) |->
                  [key |-> sort_key_desc(new_past[i]), item |-> new_past[i]]],
              TRUE)

CurrentFeedTitle ==
    <<"N", "e", "o", "T", "e", "c", "h", " ", "C", "l", "u", "b", " ", "-", " ", "C", "u", "r", "r", "e", "n", "t", " ", "E", "v", "e", "n", "t", "s">>

CurrentFeedDescription ==
    <<"U", "p", "c", "o", "m", "i", "n", "g", " ", "e", "v", "e", "n", "t", "s", " ", "a", "n", "d", " ", "a", "c", "t", "i", "v", "i", "t", "i", "e", "s", " ", "a", "t", " ", "N", "e", "o", "T", "e", "c", "h", " ", "C", "l", "u", "b", " ", "@", " ", "G", "C", "C">>

PastFeedTitle ==
    <<"N", "e", "o", "T", "e", "c", "h", " ", "C", "l", "u", "b", " ", "-", " ", "P", "a", "s", "t", " ", "E", "v", "e", "n", "t", "s">>

PastFeedDescription ==
    <<"A", "r", "c", "h", "i", "v", "e", " ", "o", "f", " ", "p", "a", "s", "t", " ", "e", "v", "e", "n", "t", "s", " ", "a", "n", "d", " ", "a", "c", "t", "i", "v", "i", "t", "i", "e", "s", " ", "a", "t", " ", "N", "e", "o", "T", "e", "c", "h", " ", "C", "l", "u", "b", " ", "@", " ", "G", "C", "C">>

NoFile == [kind |-> "absent"]

NoFiles == [index |-> NoFile, current |-> NoFile, past |-> NoFile, json |-> NoFile]

\* the document whose events were updated in place by the attach loop
with_attached(data, all_events) ==
    LET n == Len(event_list(data, "current_events"))
    IN [k \in DOMAIN data |->
          IF k = "current_events" THEN SubSeq(all_events, 1, n)
          ELSE IF k = "past_events" THEN SubSeq(all_events, n + 1, Len(all_events))
          ELSE data[k]]

\* what convert_yaml_to_json leaves behind when exc is caught at line 426
Failed(exc, data, new_current, new_past) ==
    [failed |-> exc, data |-> data,
     new_current |-> new_current, new_past |-> new_past, files |-> NoFiles]

\* lines 340-342: the events with date_utc attached
attach_all(all_events, zi) ==
    [i \in 1..Len(all_events) |-> attach_date_utc_to_event(all_events[i], zi)]

\* lines 389-390: the document with its two lists replaced
with_lists(data, current, past) ==
    [k \in DOMAIN data \cup {"current_events", "past_events"} |->
        IF k = "current_events" THEN current
        ELSE IF k = "past_events" THEN past
        ELSE data[k]]

\* lines 396-425: the three feeds and the JSON document
written(current_feed, past_feed, out) ==
    [index |-> current_feed, current |-> current_feed, past |-> past_feed,
     json |-> [kind |-> "json", data |-> out]]

\* lines 386-425: the outcome of the two sorts, then the output; now is
\* the datetime.now() of generate_rss_feed
sort_and_write(data, new_current, new_past, sorted_current, sorted_past, now) ==
    IF sorted_current.kind = "raise"
    THEN Failed(sorted_current.exc, data, new_current, new_past)
    ELSE IF sorted_past.kind = "raise"
    THEN Failed(sorted_past.exc, data, sorted_current.val, new_past)
    ELSE [failed |-> "",
          data |-> with_lists(data, sorted_current.val, sorted_past.val),
          new_current |-> sorted_current.val, new_past |-> sorted_past.val,
          files |-> written(
              generate_rss_feed(sorted_current.val, CurrentFeedTitle,
                                CurrentFeedDescription, base_url, now),
              generate_rss_feed(sorted_past.val, PastFeedTitle,
                                PastFeedDescription, base_url, now),
              with_lists(data, sorted_current.val, sorted_past.val))]

\* lines 350-387: the events split at now_utc, each list then sorted
partition(data, new_current, new_past, now) ==
    sort_and_write(data, new_current, new_past,
                   sort_current(new_current), sort_past(new_past), now)

\* lines 340-365: the attach loop, the reference instant and the split
classify(data, all_events, now_utc, now) ==
    IF \E i \in 1..Len(all_events) : IsRaise(all_events[i])
    THEN Failed((CHOOSE e \in {all_events[i] : i \in 1..Len(all_events)} :
                    IsRaise(e)).exc, data, <<>>, <<>>)
    ELSE IF now_utc.kind = "raise"
    THEN Failed(now_utc.exc, with_attached(data, all_events), <<>>, <<>>)
    ELSE partition(with_attached(data, all_events),
                   SelectSeq(all_events, LAMBDA e : ~goes_to_past(e, now_utc)),
                   SelectSeq(all_events, LAMBDA e : goes_to_past(e, now_utc)),
                   now)

\* convert_yaml_to_json for a parsed document:
\*   failed      the exception caught at line 426, "" when none
\*   data        the document when the function returns
\*   new_current, new_past  the two lists as last assigned (a sort that
\*               raises is taken to leave its list in the order it had)
\*   files       events/index.xml, events/current/index.xml,
\*               events/past/index.xml and the JSON document written
convert_yaml_to_json(data, clock, zi) ==
    IF "current_events" \notin DOMAIN data /\ "past_events" \notin DOMAIN data
    THEN [failed |-> "", data |-> data, new_current |-> <<>>,
          new_past |-> <<>>,
          files |-> [NoFiles EXCEPT !.json = [kind |-> "json", data |-> data]]]
    ELSE classify(data,
                  attach_all(event_list(data, "current_events")
                             \o event_list(data, "past_events"), zi),
                  now_utc_of(clock, zi), now_utc_of(clock, "None"))

\* ------------------------------------------------------------------------
\* build_site: the YAML files it converts
\* ------------------------------------------------------------------------
\* no document loaded
NoData == [unloaded |-> TRUE]

\* line 499
yaml_files == <<"schedule.yaml", "events.yaml", "team.yaml">>

\* What a YAML file of the script directory can be: not there, there but
\* not readable (open raises), not YAML (yaml.safe_load raises), empty
\* (yaml.safe_load returns None), or a document
MissingFile == [kind |-> "missing"]

UnreadableFile == [kind |-> "unreadable"]

MalformedFile == [kind |-> "malformed"]

EmptyFile == [kind |-> "empty"]

YamlFile(doc) == [kind |-> "yaml", data |-> doc]

\* line 502: os.path.exists(yaml_file)
exists(file) == file.kind # "missing"

\* lines 326-427 from the file on: open and yaml.safe_load, then the
\* conversion of the document; line 331 raises TypeError on None
convert_yaml_file(file, clock, zi) ==
    IF file.kind = "unreadable" THEN Failed("PermissionError", NoData, <<>>, <<>>)
    ELSE IF file.kind = "malformed" THEN Failed("YAMLError", NoData, <<>>, <<>>)
    ELSE IF file.kind = "empty" THEN Failed("TypeError", NoData, <<>>, <<>>)
    ELSE convert_yaml_to_json(file.data, clock, zi)

\* what the console and the output directory show of one conversion: the
\* exception of line 427 ("" when line 425 printed), and whether the JSON
\* document was written
report_of(name, r) ==
    [file |-> name, failed |-> r.failed, json |-> r.files.json # NoFile]

\* ------------------------------------------------------------------------
\* State
\* ------------------------------------------------------------------------
VARIABLES
    ZoneInfo,     \* the runtime: one of ZoneInfoModes
    clock,        \* the wall clock in UTC, <<y, m, d, h, mi, s>>
    pc,           \* "start" before the operation has run, "done" after
    event,        \* the event map attach_date_utc_to_event works on
    combined,     \* the naive local instant of line 207 for that event
    yaml_file,    \* the document in the YAML file, as yaml.safe_load parses it
    data,         \* convert_yaml_to_json's document when it returns
    new_current,  \* convert_yaml_to_json's list of current events
    new_past,     \* convert_yaml_to_json's list of past events
    files,        \* the documents convert_yaml_to_json has written
    failed,       \* the exception reported by the operation, "" when none
    events,       \* the events handed to generate_rss_feed
    feed,         \* the document generate_rss_feed has written
    sources,      \* build_site: the three YAML files of the script directory
    yaml_index,   \* build_site: the position of the loop of line 501
    reports,      \* build_site: the outcome of each conversion, in order
    processed     \* build_site: TRUE once the file-processing pass has run

vars == <<ZoneInfo, clock, pc, event, combined, yaml_file, data, new_current,
          new_past, files, failed, events, feed, sources, yaml_index, reports,
          processed>>

\* the variables of build_site
build_vars == <<sources, yaml_index, reports, processed>>

\* the longest event list of a document
MaxEvents == 2

\* the longest event list handed to generate_rss_feed on its own
MaxFeedEvents == 2

\* the one reading of the clock: 2025-06-01T00:00:00 UTC
Clock == <<2025, 6, 1, 0, 0, 0>>

EventPool == {
    Event(<<"K", "i", "c", "k", "o", "f", "f">>,
          <<>>, <<"2", "0", "2", "5", "-", "0", "1", "-", "1", "0">>),  \* 'Kickoff' '2025-01-10': before the clock
    Event(<<"R", "e", "t", "r", "o">>,
          <<>>, <<"1", "0", " ", "J", "a", "n", "u", "a", "r", "y", " ", "2", "0", "2", "5">>),  \* 'Retro' '10 January 2025': the same instant as Kickoff
    Event(<<"O", "l", "d", " ", "T", "a", "l", "k">>,
          <<>>, <<"2", "0", "2", "0", "-", "0", "1", "-", "0", "1">>),  \* 'Old Talk' '2020-01-01': before the clock, earlier
    Event(<<"E", "x", "p", "o">>,
          <<>>, <<"2", "0", "3", "0", "-", "0", "6", "-", "1", "5">>),  \* 'Expo' '2030-06-15': after the clock
    Event(<<"T", "B", "A", " ", "T", "a", "l", "k">>,
          <<>>, <<"T", "B", "A">>),  \* 'TBA Talk' 'TBA': no date
    Event(<<"S", "u", "n", "r", "i", "s", "e">>,
          <<>>, <<"2", "0", "2", "5", "-", "0", "6", "-", "0", "1", ",", " ", "5", ":", "3", "0", "A", "M">>),  \* 'Sunrise' '2025-06-01, 5:30AM': exactly the clock
    Event(<<"O", "r", "i", "g", "i", "n">>,
          <<>>, <<"0", "0", "0", "1", "-", "0", "1", "-", "0", "1">>)   \* 'Origin' '0001-01-01': the first representable day
    }

FeedEventPool == {
    [title |-> <<"T", "e", "c", "h", " ", "T", "a", "l", "k">>,
     description |-> <<"M", "o", "n", "t", "h", "l", "y", " ", "t", "a", "l", "k">>,
     location |-> None, duration |-> None,
     date |-> <<"2", "0", "2", "5", "-", "0", "1", "-", "1", "0">>,
     date_utc |-> <<"2", "0", "2", "5", "-", "0", "1", "-", "0", "9", "T", "1", "8", ":", "3", "0", ":", "0", "0", "Z">>,
     signup_url |-> None,
     instructions_url |-> None],
    [title |-> <<"t", "e", "c", "h", "-", "t", "a", "l", "k">>,
     description |-> <<"a", "<", "b", " ", "&", " ", "c">>,
     location |-> None, duration |-> None,
     date |-> <<"1", "0", " ", "J", "a", "n", " ", "2", "0", "2", "5">>,
     date_utc |-> <<"2", "0", "2", "5", "-", "0", "1", "-", "0", "9", "T", "1", "8", ":", "3", "0", ":", "0", "0", "Z">>,
     signup_url |-> None,
     instructions_url |-> None],
    [title |-> <<"Q", "&", "A", " ", "<", "L", "i", "v", "e", ">">>,
     description |-> <<"<", "b", ">", "b", "o", "l", "d", "<", "/", "b", ">">>,
     location |-> <<"L", "a", "b", " ", "2">>, duration |-> None,
     date |-> <<"2", "0", "2", "5", "-", "0", "1", "-", "1", "0">>,
     date_utc |-> <<"2", "0", "2", "5", "-", "0", "1", "-", "0", "9", "T", "1", "8", ":", "3", "0", ":", "0", "0", "Z">>,
     signup_url |-> <<"h", "t", "t", "p", "s", ":", "/", "/", "x", ".", "i", "o", "/", "?", "a", "=", "1", "&", "b", "=", "2">>,
     instructions_url |-> None],
    [title |-> <<"T", "e", "c", "h", " ", "T", "a", "l", "k">>,
     description |-> <<"N", "e", "x", "t", " ", "o", "n", "e">>,
     location |-> None, duration |-> None,
     date |-> <<"2", "0", "2", "5", "-", "0", "2", "-", "1", "0">>,
     date_utc |-> <<"2", "0", "2", "5", "-", "0", "2", "-", "0", "9", "T", "1", "8", ":", "3", "0", ":", "0", "0", "Z">>,
     signup_url |-> None,
     instructions_url |-> None],
    [title |-> <<"T", "e", "c", "h", " ", "T", "a", "l", "k">>,
     description |-> <<>>,
     location |-> <<>>, duration |-> None,
     date |-> <<"T", "B", "A">>,
     date_utc |-> None,
     signup_url |-> None,
     instructions_url |-> None],
    [title |-> <<"T", "e", "c", "h", " ", " ", "T", "a", "l", "k">>,
     description |-> <<"R", "&", "D">>,
     location |-> None, duration |-> None,
     date |-> <<"T", "B", "A">>,
     date_utc |-> None,
     signup_url |-> None,
     instructions_url |-> None],
    [title |-> None,
     description |-> None,
     location |-> None, duration |-> None,
     date |-> None,
     date_utc |-> None,
     signup_url |-> None,
     instructions_url |-> None],
    [title |-> <<"K", "i", "c", "k", "o", "f", "f">>,
     description |-> <<"x", " ", ">", " ", "y">>,
     location |-> None, duration |-> None,
     date |-> <<"2", "0", "2", "5", "-", "0", "1", "-", "1", "0">>,
     date_utc |-> <<"2", "0", "2", "5", "-", "0", "1", "-", "1", "0", "T", "0", "0", ":", "0", "0", ":", "0", "0">>,
     signup_url |-> None,
     instructions_url |-> None],
    [title |-> <<"Q", "&", "a", "m", "p", ";", "A">>,
     description |-> <<"&", "l", "t", ";">>,
     location |-> None, duration |-> None,
     date |-> <<"S", "o", "o", "n", " ", "&", " ", "l", "a", "t", "e", "r">>,
     date_utc |-> None,
     signup_url |-> None,
     instructions_url |-> None],
    [title |-> <<"Q", "&", "A">>,
     description |-> <<"&">>,
     location |-> None, duration |-> None,
     date |-> <<"S", "o", "o", "n", " ", "&", " ", "l", "a", "t", "e", "r">>,
     date_utc |-> None,
     signup_url |-> None,
     instructions_url |-> None]
    }

\* all lists of at most n members of S
ListsUpTo(S, n) == UNION {[1..k -> S] : k \in 0..n}

NoEvent == Event(None, None, None)

\* a document without events (schedule.yaml, team.yaml)
OtherDocument == [members |-> <<>>]

NoFeed == [kind |-> "absent"]

\* the variables an operation does not use
IdleResolver == event = NoEvent /\ combined = NoneDt

IdleConverter ==
    /\ yaml_file = NoData /\ data = NoData
    /\ new_current = <<>> /\ new_past = <<>> /\ files = NoFiles

IdleFeed == events = <<>> /\ feed = NoFeed

IdleBuild ==
    /\ sources = <<>> /\ yaml_index = 0 /\ reports = <<>> /\ processed = FALSE

\* ------------------------------------------------------------------------
\* The date resolver run on one event
\* ------------------------------------------------------------------------
InitResolver ==
    /\ ZoneInfo \in ZoneInfoModes
    /\ clock = Clock
    /\ pc = "start"
    /\ failed = ""
    /\ \E d \in DateStrings \cup {None} :
          event = Event(<<"E">>, <<>>, d)
    /\ combined = NoneDt
    /\ IdleConverter /\ IdleFeed /\ IdleBuild

AttachDateUtcToEvent ==
    /\ pc = "start"
    /\ event # NoEvent
    /\ \E r \in {attach_date_utc_to_event(event, ZoneInfo)} :
          IF IsRaise(r)
          THEN /\ failed' = r.exc
               /\ UNCHANGED <<event, combined>>
          ELSE /\ failed' = ""
               /\ event' = r
               /\ combined' = combined_of(get(event.date, <<>>))
    /\ pc' = "done"
    /\ UNCHANGED <<ZoneInfo, clock, yaml_file, data, new_current, new_past, files,
                   events, feed, build_vars>>

NextResolver == AttachDateUtcToEvent

SpecResolver == InitResolver /\ [][NextResolver]_vars

\* ------------------------------------------------------------------------
\* convert_yaml_to_json run on one document
\* ------------------------------------------------------------------------
Documents ==
    LET lists == ListsUpTo(EventPool, MaxEvents)
        pairs == {x \in lists \X lists : Len(x[1]) + Len(x[2]) <= MaxEvents}
    IN {[current_events |-> x[1], past_events |-> x[2]] : x \in pairs}
       \cup {[current_events |-> c] : c \in lists}
       \cup {[past_events |-> q] : q \in lists}
       \cup {OtherDocument}

Init ==
    /\ ZoneInfo \in ZoneInfoModes
    /\ clock = Clock
    /\ pc = "start"
    /\ failed = ""
    /\ yaml_file \in Documents
    /\ data = NoData
    /\ new_current = <<>> /\ new_past = <<>> /\ files = NoFiles
    /\ IdleResolver /\ IdleFeed /\ IdleBuild

ConvertYamlToJson ==
    /\ pc = "start"
    /\ \E r \in {convert_yaml_to_json(yaml_file, clock, ZoneInfo)} :
          /\ failed' = r.failed
          /\ new_current' = r.new_current
          /\ new_past' = r.new_past
          /\ files' = r.files
          /\ data' = r.data
    /\ pc' = "done"
    /\ UNCHANGED <<ZoneInfo, clock, event, combined, yaml_file, events, feed,
                   build_vars>>

Next == ConvertYamlToJson

Spec == Init /\ [][Next]_vars

\* ------------------------------------------------------------------------
\* generate_rss_feed run on one list of events
\* ------------------------------------------------------------------------
InitFeed ==
    /\ ZoneInfo \in ZoneInfoModes
    /\ clock = Clock
    /\ pc = "start"
    /\ failed = ""
    /\ events \in ListsUpTo(FeedEventPool, MaxFeedEvents)
    /\ feed = NoFeed
    /\ IdleResolver /\ IdleConverter /\ IdleBuild

GenerateRssFeed ==
    /\ pc = "start"
    /\ feed' = generate_rss_feed(events, CurrentFeedTitle, CurrentFeedDescription,
                                 base_url, now_utc_of(clock, "None"))
    /\ pc' = "done"
    /\ UNCHANGED <<ZoneInfo, clock, event, combined, yaml_file, data, new_current,
                   new_past, files, failed, events, build_vars>>

NextFeed == GenerateRssFeed

SpecFeed == InitFeed /\ [][NextFeed]_vars

\* ------------------------------------------------------------------------
\* build_site: the YAML loop of lines 499-503, then the file-processing pass
\* ------------------------------------------------------------------------
\* the longest event list of events.yaml in a build
MaxBuildEvents == 2

BuildEventPool == {
    Event(<<"E", "x", "p", "o">>,
          <<>>, <<"2", "0", "3", "0", "-", "0", "6", "-", "1", "5">>),  \* 'Expo' '2030-06-15'
    Event(<<"H", "a", "c", "k">>,
          <<>>, <<"n", "e", "x", "t", " ", "w", "e", "e", "k">>),  \* 'Hack' 'next week': no format parses it
    Event(<<"D", "e", "m", "o">>,
          <<>>, <<"2", "0", "2", "0", "-", "0", "1", "-", "0", "1", ",", " ", "1", "3", ":", "7", "5", "P", "M">>)  \* 'Demo' '2020-01-01, 13:75PM': a time token strptime rejects
}

\* schedule.yaml and team.yaml
OtherFiles == {MissingFile, UnreadableFile, MalformedFile, YamlFile(OtherDocument)}

\* events.yaml
EventsFiles ==
    {MissingFile, UnreadableFile, MalformedFile, EmptyFile}
    \cup {YamlFile([current_events |-> c]) :
             c \in ListsUpTo(BuildEventPool, MaxBuildEvents)}

InitBuild ==
    /\ ZoneInfo \in ZoneInfoModes
    /\ clock = Clock
    /\ pc = "yaml"
    /\ failed = ""
    /\ sources \in OtherFiles \X EventsFiles \X OtherFiles
    /\ yaml_index = 1
    /\ reports = <<>>
    /\ processed = FALSE
    /\ IdleResolver /\ IdleConverter /\ IdleFeed

\* lines 501-503, a file that exists: the conversion, whose exceptions
\* line 426 has caught
ConvertExisting ==
    /\ pc = "yaml"
    /\ yaml_index <= Len(yaml_files)
    /\ exists(sources[yaml_index])
    /\ reports' = Append(reports,
                         report_of(yaml_files[yaml_index],
                                   convert_yaml_file(sources[yaml_index],
                                                     clock, ZoneInfo)))
    /\ yaml_index' = yaml_index + 1
    /\ UNCHANGED <<ZoneInfo, clock, pc, event, combined, yaml_file, data,
                   new_current, new_past, files, failed, events, feed, sources,
                   processed>>

\* lines 501-502, a file that is not there
SkipMissing ==
    /\ pc = "yaml"
    /\ yaml_index <= Len(yaml_files)
    /\ ~exists(sources[yaml_index])
    /\ yaml_index' = yaml_index + 1
    /\ UNCHANGED <<ZoneInfo, clock, pc, event, combined, yaml_file, data,
                   new_current, new_past, files, failed, events, feed, sources,
                   reports, processed>>

\* lines 505-515: the file-processing pass, after the loop
ProcessFiles ==
    /\ pc = "yaml"
    /\ yaml_index > Len(yaml_files)
    /\ processed' = TRUE
    /\ pc' = "done"
    /\ UNCHANGED <<ZoneInfo, clock, event, combined, yaml_file, data,
                   new_current, new_past, files, failed, events, feed, sources,
                   yaml_index, reports>>

NextBuild == ConvertExisting \/ SkipMissing \/ ProcessFiles

SpecBuild == InitBuild /\ [][NextBuild]_vars

\* ------------------------------------------------------------------------
\* Properties of convert_yaml_to_json (specification Spec)
\* ------------------------------------------------------------------------
HasEvents(doc) == "current_events" \in DOMAIN doc \/ "past_events" \in DOMAIN doc

\* the events of the YAML file, in the order of all_events
SourceEvents == event_list(yaml_file, "current_events")
                \o event_list(yaml_file, "past_events")

\* the events after the attach loop
AllEvents == event_list(data, "current_events") \o event_list(data, "past_events")

\* the function got as far as splitting the events
Partitioned ==
    /\ pc = "done" /\ HasEvents(yaml_file)
    /\ failed \in {"", "TypeError"}

\* the function returned normally on a document with events
Converted == pc = "done" /\ HasEvents(yaml_file) /\ failed = ""

Count(e, seq) == Cardinality({i \in 1..Len(seq) : seq[i] = e})

Dated(e) == e.date_utc # None

\* the instant a date_utc string names, read as UTC
InstantOf(e) == Fields(fromisoformat(e.date_utc))

ClockInstant == Fields(now_utc_of(clock, "None"))

\* C1: every event lands in exactly one of new_current and new_past, and it
\* is in new_past exactly when its date_utc is not null and is strictly
\* before the reference instant
C1_PartitionByDate ==
    Partitioned =>
        /\ Len(new_current) + Len(new_past) = Len(SourceEvents)
        /\ \A i \in 1..Len(AllEvents) :
              Count(AllEvents[i], new_current) + Count(AllEvents[i], new_past)
                  = Count(AllEvents[i], AllEvents)
        /\ \A i \in 1..Len(new_past) :
              /\ Dated(new_past[i])
              /\ TupleLess(InstantOf(new_past[i]), ClockInstant)
        /\ \A i \in 1..Len(new_current) :
              \/ ~Dated(new_current[i])
              \/ ~TupleLess(InstantOf(new_current[i]), ClockInstant)

\* C2: whenever the events have been split, the function goes on to write
\* its output, and the current list written is ascending by date_utc with
\* every undated event after every dated one
C2_CurrentSortedNullsLast ==
    Partitioned =>
        /\ failed = ""
        /\ files.json # NoFile
        /\ \A i, j \in 1..Len(new_current) :
              i < j =>
                 /\ ~Dated(new_current[i]) => ~Dated(new_current[j])
                 /\ (Dated(new_current[i]) /\ Dated(new_current[j])) =>
                       ~TupleLess(InstantOf(new_current[j]), InstantOf(new_current[i]))

WithDate(seq, d) == SelectSeq(seq, LAMBDA e : e.date_utc = d)

\* the events of the document that went to the past list, in document order
PastInDocumentOrder ==
    SelectSeq(AllEvents, LAMBDA e : \E i \in 1..Len(new_past) : new_past[i] = e)

C4_Idempotent ==
    Converted =>
        LET again == convert_yaml_to_json(data, clock, ZoneInfo)
        IN /\ again.failed = ""
           /\ again.new_current = new_current
           /\ again.new_past = new_past
           /\ again.data = data

\* a run whose past list holds two different events with the same date_utc
C4_Witness ==
    /\ Converted
    /\ Len(new_past) = 2
    /\ new_past[1] # new_past[2]
    /\ new_past[1].date_utc = new_past[2].date_utc

\* ------------------------------------------------------------------------
\* Properties of the date resolver (specification SpecResolver)
\* ------------------------------------------------------------------------
Resolved == pc = "done" /\ event # NoEvent

DateStr == get(event.date, <<>>)

\* the date-bearing prefix: what precedes the first comma, trimmed
DatePrefix(s) == str_strip(split_comma_first(s))

MatchesAFormat(p) ==
    \/ strptime_iso(p).kind = "datetime"
    \/ strptime_dmy(p, "%B").kind = "datetime"
    \/ strptime_dmy(p, "%b").kind = "datetime"

\* C5: the resolver never raises; it yields null for an empty string, for
\* TBA in any letter case after trimming, and when the prefix before the
\* first comma matches none of the three formats, and an instant otherwise
C5_NullOrInstant ==
    Resolved =>
        /\ failed = ""
        /\ (event.date_utc = None) <=>
              \/ DateStr = <<>>
              \/ str_upper(str_strip(DateStr)) = TBA
              \/ ~MatchesAFormat(DatePrefix(DateStr))

\* a date that parses, followed by a time token that does not
C5_Witness ==
    /\ Resolved
    /\ MatchesAFormat(DatePrefix(DateStr))
    /\ time_search(DateStr) # None
    /\ strptime_time(str_replace(str_upper(str_strip(time_search(DateStr))),
                                 <<" ">>, <<>>)) = ValueError
    /\ event.date_utc # None

\* s is YYYY-MM-DD, zero padded, and names a day of the calendar
IsIsoDate(s) ==
    /\ Len(s) = 10
    /\ \A i \in {1, 2, 3, 4, 6, 7, 9, 10} : IsDigit(s[i])
    /\ s[5] = "-" /\ s[8] = "-"
    /\ ValidDate(int_of(SubSeq(s, 1, 4)), int_of(SubSeq(s, 6, 7)),
                 int_of(SubSeq(s, 9, 10)))

IsoYMD(s) == <<int_of(SubSeq(s, 1, 4)), int_of(SubSeq(s, 6, 7)), int_of(SubSeq(s, 9, 10))>>

DateText(ymd) ==
    zero_pad(ymd[1], 4) \o <<"-">> \o zero_pad(ymd[2], 2) \o <<"-">> \o zero_pad(ymd[3], 2)

\* midnight of the day ymd in UTC+5:30, written as a UTC timestamp: 18:30
\* of the day before
MidnightIstAsUtc(ymd) ==
    DateText(PrevDay(ymd[1], ymd[2], ymd[3]))
    \o <<"T", "1", "8", ":", "3", "0", ":", "0", "0", "Z">>

\* C6 as stated: for every valid YYYY-MM-DD string the resolved instant is
\* the midnight of that date in UTC+5:30, that is the midnight minus 5h30
C6_MidnightIST ==
    (Resolved /\ IsIsoDate(DateStr)) =>
        event.date_utc = MidnightIstAsUtc(IsoYMD(DateStr))

\* the day since which Asia/Kolkata has been at UTC+5:30 without a break
IstSince == <<1945, 10, 15>>

\* C6 as amended: when the timezone database is available, for every valid
\* YYYY-MM-DD string dated 1945-10-15 or later the resolved instant is the
\* midnight of that date minus 5h30; without the database the resolved
\* instant is the midnight of that date itself
C6_MidnightISTWithTzData ==
    (Resolved /\ IsIsoDate(DateStr)) =>
        /\ (ZoneInfo = "zoneinfo" /\ ~TupleLess(IsoYMD(DateStr), IstSince)) =>
              event.date_utc = MidnightIstAsUtc(IsoYMD(DateStr))
        /\ ZoneInfo # "zoneinfo" =>
              event.date_utc = DateText(IsoYMD(DateStr))
                               \o <<"T", "0", "0", ":", "0", "0", ":", "0", "0">>

\* a modern ISO date resolved with the timezone database
C6_Witness ==
    /\ Resolved /\ IsIsoDate(DateStr)
    /\ ZoneInfo = "zoneinfo"
    /\ ~TupleLess(IsoYMD(DateStr), IstSince)
    /\ event.date_utc = MidnightIstAsUtc(IsoYMD(DateStr))

\* the 24-hour reading of a time token: the token, upper-cased and without
\* spaces, is the text of an hour 1..12, a minute 00..59 and AM or PM
ClockTexts(h, m, pm) ==
    LET tail == <<":">> \o zero_pad(m, 2) \o (IF pm THEN <<"P", "M">> ELSE <<"A", "M">>)
    IN {zero_pad(h, 1) \o tail, zero_pad(h, 2) \o tail}

TokenReading(token) ==
    LET text == str_replace(str_upper(str_strip(token)), <<" ">>, <<>>)
        hits == {x \in (1..12) \X (0..59) \X BOOLEAN : text \in ClockTexts(x[1], x[2], x[3])}
    IN IF hits = {} THEN <<0, 0>>
       ELSE LET x == CHOOSE y \in hits : TRUE
            IN <<(x[1] % 12) + (IF x[3] THEN 12 ELSE 0), x[2]>>

\* the local time of day the claim prescribes; hour_of(n) is the hour taken
\* from the number n of an "<n> Hour" pattern
PrescribedTime(s, hour_of(_)) ==
    IF time_search(s) # None THEN TokenReading(time_search(s))
    ELSE IF hour_search(s) >= 0 THEN <<hour_of(hour_search(s)), 0>>
    ELSE <<0, 0>>

DateParsed == Resolved /\ combined.kind = "datetime"

\* C7 as stated: the local time is the 24-hour value of the first clock
\* time followed by AM/PM, midnight if that token is malformed; otherwise
\* hour n of an "<n> Hour" pattern at minute 0; otherwise 00:00
C7_TimeOfDay ==
    DateParsed =>
        <<combined.hour, combined.minute>> = PrescribedTime(DateStr, LAMBDA n : n)

\* C7 as amended: as stated, but the hour of an "<n> Hour" pattern is
\* n modulo 24
C7_TimeOfDayMod24 ==
    DateParsed =>
        <<combined.hour, combined.minute>> = PrescribedTime(DateStr, LAMBDA n : n % 24)

\* an "<n> Hour" pattern with n of 24 or more, resolved
C7_Witness ==
    /\ DateParsed
    /\ time_search(DateStr) = None
    /\ hour_search(DateStr) >= 24
    /\ combined.hour = hour_search(DateStr) % 24

\* C8: after attach_date_utc_to_event, date_utc is null or a timestamp
\* string that ends in Z, in every runtime
C8_EndsInZ ==
    Resolved =>
        \/ event.date_utc = None
        \/ event.date_utc[Len(event.date_utc)] = "Z"

\* ------------------------------------------------------------------------
\* Properties of generate_rss_feed (specification SpecFeed)
\* ------------------------------------------------------------------------
Rendered == pc = "done" /\ feed # NoFeed

Amp == <<"&", "a", "m", "p", ";">>

Lt == <<"&", "l", "t", ";">>

Gt == <<"&", "g", "t", ";">>

HasSpecial(s) == \E i \in 1..Len(s) : s[i] \in {"<", "&"}

\* text holds no bare < or >, and every & in it opens one of the entities
NoBareSpecials(text) ==
    \A i \in 1..Len(text) :
        /\ text[i] \notin {"<", ">"}
        /\ text[i] = "&" =>
              \E e \in {Amp, Lt, Gt} :
                 /\ i + Len(e) - 1 <= Len(text)
                 /\ SubSeq(text, i, i + Len(e) - 1) = e

\* the text an XML reader gets back from escaped character data
Unescape(text) ==
    str_replace(str_replace(str_replace(text, Lt, <<"<">>), Gt, <<">">>), Amp, <<"&">>)

\* text is the XML-escaped form of raw
IsEscapedFormOf(text, raw) == NoBareSpecials(text) /\ Unescape(text) = raw

IsPrefix(p, text) == Len(p) <= Len(text) /\ SubSeq(text, 1, Len(p)) = p

RawTitle(e) == get(e.title, UntitledEvent)

RawDescription(e) == get(e.description, <<>>)

\* C9 as stated: in every item the title is XML-escaped, while the
\* description stands unescaped at the head of the CDATA body
C9_DescriptionVerbatim ==
    Rendered =>
        \A i \in 1..Len(events) :
            /\ IsEscapedFormOf(feed.items[i].title, RawTitle(events[i]))
            /\ IsPrefix(RawDescription(events[i]), feed.items[i].description)

\* C9 as amended: in every item the title is XML-escaped, and so is the
\* description at the head of the CDATA body; what follows it there is the
\* markup the generator adds, which starts with a bare <
C9_DescriptionEscaped ==
    Rendered =>
        \A i \in 1..Len(events) :
            /\ IsEscapedFormOf(feed.items[i].title, RawTitle(events[i]))
            /\ \E k \in 0..Len(feed.items[i].description) :
                  /\ IsEscapedFormOf(SubSeq(feed.items[i].description, 1, k),
                                     RawDescription(events[i]))
                  /\ k < Len(feed.items[i].description) =>
                        feed.items[i].description[k + 1] = "<"

\* a rendered event whose description and title both hold < or &
C9_Witness ==
    /\ Rendered
    /\ \E i \in 1..Len(events) :
          /\ HasSpecial(RawDescription(events[i]))
          /\ HasSpecial(RawTitle(events[i]))
          /\ feed.items[i].description # <<>>

\* the date of an event for its GUID: date_utc, or the raw date string when
\* date_utc is absent
GuidDate(e) == IF e.date_utc # None THEN e.date_utc ELSE get(e.date, TBD)

\* C10: two rendered events with different (title, date) pairs get
\* different GUIDs
C10_DistinctGuids ==
    Rendered =>
        \A i, j \in 1..Len(events) :
            <<RawTitle(events[i]), GuidDate(events[i])>>
               # <<RawTitle(events[j]), GuidDate(events[j])>>
            => feed.items[i].guid # feed.items[j].guid

\* ------------------------------------------------------------------------
\* Properties of build_site (specification SpecBuild)
\* ------------------------------------------------------------------------
\* the positions, among the first n of yaml_files, of the files that exist
RECURSIVE Existing(_)
Existing(n) ==
    IF n = 0 THEN <<>>
    ELSE IF exists(sources[n]) THEN Append(Existing(n - 1), n)
    ELSE Existing(n - 1)

\* the position in yaml_files of the file a report is about
PositionOf(report) == CHOOSE i \in 1..Len(yaml_files) : yaml_files[i] = report.file

\* what converting the file at position i gives when it is converted alone
ConvertedAlone(i) ==
    report_of(yaml_files[i], convert_yaml_file(sources[i], clock, ZoneInfo))

\* the loop has called convert_yaml_to_json on every file that exists among
\* those it has passed, a failed one included, and each outcome is the one
\* of its own file
EveryDocumentConverted ==
    /\ Len(reports) = Len(Existing(yaml_index - 1))
    /\ \A k \in 1..Len(reports) :
          reports[k] = ConvertedAlone(Existing(yaml_index - 1)[k])

\* a file that cannot be read or parsed is reported, and nothing is written
\* for it
ReadFailureReported ==
    \A k \in 1..Len(reports) :
        sources[PositionOf(reports[k])].kind \in {"unreadable", "malformed", "empty"}
            => reports[k].failed # "" /\ ~reports[k].json

\* the build is never stopped in the loop (in each of its positions the
\* next file is converted or skipped, or the file-processing pass starts),
\* and it ends with the file-processing pass run after all three files
BuildGoesOn ==
    /\ pc = "yaml" => yaml_index \in 1..(Len(yaml_files) + 1)
    /\ pc = "done" => processed /\ yaml_index = Len(yaml_files) + 1
    /\ processed => pc = "done"

C11_BuildProceeds ==
    EveryDocumentConverted /\ ReadFailureReported /\ BuildGoesOn

\* the event's date is given and is not TBA, and either no format parses
\* it or its time token is one strptime rejects
DateFails(e) ==
    /\ e.date \notin {None, <<>>}
    /\ str_upper(str_strip(e.date)) # TBA
    /\ \/ parse_event_date(e.date) = NoneDt
       \/ /\ time_search(e.date) # None
          /\ IsRaise(strptime_time(
                 str_replace(str_upper(str_strip(time_search(e.date))),
                             <<" ">>, <<>>)))

\* the document without the events whose date fails to parse
WithoutFailingDates(doc) ==
    [k \in DOMAIN doc |->
        IF k \in {"current_events", "past_events"}
        THEN SelectSeq(doc[k], LAMBDA e : ~DateFails(e))
        ELSE doc[k]]

\* the events of a document, in the order of all_events
EventsOf(doc) ==
    event_list(doc, "current_events") \o event_list(doc, "past_events")

\* TRUE when the document holds an event whose date fails to parse
HasFailingDate(doc) ==
    \E j \in 1..Len(EventsOf(doc)) : DateFails(EventsOf(doc)[j])

\* the report is of a document that failed although it converts once its
\* events with a failing date are taken out
FailedByDate(report) ==
    /\ sources[PositionOf(report)].kind = "yaml"
    /\ HasFailingDate(sources[PositionOf(report)].data)
    /\ report.failed # ""
    /\ convert_yaml_to_json(WithoutFailingDates(sources[PositionOf(report)].data),
                            clock, ZoneInfo).failed = ""

C11_DateFailureRecovered ==
    \A k \in 1..Len(reports) : ~FailedByDate(reports[k])

\* C11: in build_site a failure while reading, parsing or converting one
\* YAML document is reported for that document only and does not stop the
\* build (every later document of yaml_files is still converted and the
\* file-processing pass still runs), and a date or time that fails to parse
\* inside an event never makes the conversion of its document fail.
C11_FailureIsolated == C11_BuildProceeds /\ C11_DateFailureRecovered

====
